---------------------------- MODULE Spec2Model ----------------------------
(***************************************************************************)
(* A model of the chess-coach scripts:                                     *)
(*   src/fetch_games_chess_dot_com.py  (Chess.com fetch, PostgreSQL store) *)
(*   src/fetech_games.py               (Lichess fetch, no store)           *)
(* The chess engine, the HTTP API and the database are the environment:    *)
(* their replies are chosen nondeterministically from small sets.          *)
(***************************************************************************)
EXTENDS Integers, Sequences, FiniteSets, TLC

VARIABLES
    pc,               \* control point of the running script
    script,           \* "chessdotcom" | "lichess" | "unit" (a function called alone)
    max_games,        \* the max_games argument (the scripts pass NUM_GAMES)
    conn,             \* main's conn: "none" | "open" | "broken" | "closed"
    txn,              \* the connection's transaction: "idle" | "active" | "aborted"
    store,            \* rows of table analyzed_games
    engine,           \* the engine process: "none" | "running" | "dead" | "quit"
    archives,         \* fetch: the archive URLs of the archive-list reply
    pending,          \* fetch: archive URLs still to visit, in visiting order
    all_pgn_data,     \* fetch: the games collected so far
    served,           \* the games with a PGN the API has served, newest first
    listing,          \* what the API answered for the archive list
    games_pgn_list,   \* main: the fetched games
    checked,          \* main: how many fetched games the filter loop has seen
    games_to_analyze, \* main: the games that passed the filter
    all_cpl_results,  \* main: per-game results, in analysis order
    game,             \* analyze_game: the parsed game
    board,            \* analyze_game: the move stack of the position
    move_count,       \* analyze_game: half-move counter
    analysis_data,    \* analyze_game: the result being built
    last_call,        \* the get_centipawn_loss call of the latest loop pass, if any
    final_summary,    \* main: aggregate_all_games' return value
    report,           \* what generate_report printed and computed
    caught,           \* the exception main's top-level handler logged, or "none"
    db_log,           \* record of the latest persistence operation
    saved_ok,         \* ids save_game_analysis was called for with a working store
    saved_prev,       \* saved_ok of the earlier runs
    raised            \* the exception propagating to main's handler, or None

vars == <<pc, script, max_games, conn, txn, store, engine, archives, pending,
          all_pgn_data, served, listing, games_pgn_list, checked, games_to_analyze,
          all_cpl_results, game, board, move_count, analysis_data, last_call,
          final_summary, report, caught, db_log, saved_ok, saved_prev, raised>>

dbVars      == <<conn, txn, store, db_log, saved_ok, saved_prev>>
fetchVars   == <<archives, pending, all_pgn_data, served, listing>>
replayVars  == <<game, board, move_count, analysis_data, last_call>>
reportVars  == <<final_summary, report>>

-----------------------------------------------------------------------------
(* Bounds of the model *)

MaxPlies == 32        \* longest game replayed by analyze_game alone
MaxLossyMoves == 1    \* tracked moves of one run the engine scores with a loss > 0
MaxGames == 2         \* largest max_games / NUM_GAMES
MaxArchives == 2      \* monthly archives in an archive-list reply
MaxArchiveGames == 2  \* games in one monthly archive
MaxResults == 2       \* games whose results aggregate_all_games is handed alone
MaxMate == 3          \* moves to mate in the evaluations get_centipawn_loss is handed alone

(* Program constants *)

MATE_VALUE == 10000
OPENING_LAST == 10
MIDDLEGAME_LAST == 30
BLUNDER_OVER == 300
MISTAKE_OVER == 100
INACCURACY_OVER == 50
INITIAL_MAX_ACPL == -1

USERNAME == "hunterisbad1"
None == "None"             \* Python's None where a string may stand
NoneRec == [none |-> TRUE] \* Python's None where a record may stand

-----------------------------------------------------------------------------
(* Python containers *)

\* A dict is the sequence of its items [k, v] in insertion order.
EmptyDict == << >>

Keys(d) == {d[i].k : i \in 1..Len(d)}

DictGet(d, key, default) ==
    IF key \in Keys(d)
    THEN d[CHOOSE i \in 1..Len(d) : d[i].k = key].v
    ELSE default

\* d[key] = value: replaces the value in place, or appends a new item.
DictPut(d, key, value) ==
    IF key \in Keys(d)
    THEN [i \in 1..Len(d) |-> IF d[i].k = key THEN [k |-> key, v |-> value] ELSE d[i]]
    ELSE Append(d, [k |-> key, v |-> value])

RECURSIVE SumSeq(_)
SumSeq(s) == IF s = << >> THEN 0 ELSE Head(s) + SumSeq(Tail(s))

Reverse(s) == [i \in 1..Len(s) |-> s[Len(s) + 1 - i]]

Max(a, b) == IF a >= b THEN a ELSE b
Abs(n) == IF n < 0 THEN -n ELSE n

-----------------------------------------------------------------------------
(* chess.engine.Score: Cp(v) or Mate(n) *)

Cp(v) == [kind |-> "cp", n |-> v]
Mate(n) == [kind |-> "mate", n |-> n]

\* -score: the same evaluation seen by the other side
Negate(score) == [kind |-> score.kind, n |-> -score.n]

\* score_to_cp with the length of the mate added, not subtracted
score_to_cp_longer_first(score, mate_value) ==
    IF score.kind = "mate"
    THEN IF score.n > 0
         THEN mate_value + score.n
         ELSE -(mate_value + Abs(score.n))
    ELSE score.n

score_to_cp(score, mate_value) ==
    IF score.kind = "mate"
    THEN IF score.n > 0
         THEN mate_value - score.n
         ELSE -(mate_value + Abs(score.n))
    ELSE score.n

get_mistake_category(cpl) ==
    IF cpl > BLUNDER_OVER THEN "Blunder"
    ELSE IF cpl > MISTAKE_OVER THEN "Mistake"
    ELSE IF cpl > INACCURACY_OVER THEN "Inaccuracy"
    ELSE "Good Move"

get_game_phase_exclusive(move_num) ==
    IF move_num < OPENING_LAST THEN "Opening"
    ELSE IF move_num < MIDDLEGAME_LAST THEN "Middlegame"
    ELSE "Endgame"

get_game_phase(move_num) ==
    IF move_num <= OPENING_LAST THEN "Opening"
    ELSE IF move_num <= MIDDLEGAME_LAST THEN "Middlegame"
    ELSE "Endgame"

\* f"{phase} - {category}"
MistakeLabel(phase, category) == phase \o " - " \o category

Phases == {"Opening", "Middlegame", "Endgame"}
Severities == {"Blunder", "Mistake", "Inaccuracy"}
Labels == {MistakeLabel(p, c) : p \in Phases, c \in Severities}

-----------------------------------------------------------------------------
(* The engine: what engine.analyse answers *)

EngineError == "EngineError"                \* analyse raises, the process lives
EngineTerminated == "EngineTerminatedError" \* analyse raises, the process is gone
EngineFailures == {EngineError, EngineTerminated}

Raises(exc) == [kind |-> exc, n |-> 0]
Failed(reply) == reply.kind \in EngineFailures

\* The (before, after) evaluations the engine gives for one played move.
EvalPairs ==
    {<<Cp(0), Cp(0)>>, <<Cp(0), Cp(30)>>,
     <<Cp(30), Cp(-30)>>, <<Cp(-30), Cp(30)>>,
     <<Cp(0), Cp(-50)>>, <<Cp(0), Cp(-51)>>,
     <<Cp(0), Cp(-100)>>, <<Cp(0), Cp(-101)>>,
     <<Cp(0), Cp(-300)>>, <<Cp(0), Cp(-301)>>,
     <<Mate(1), Mate(-1)>>, <<Mate(-1), Mate(1)>>}

\* The replies to the two queries of one get_centipawn_loss call.
EngineReplies ==
    EvalPairs
    \cup {<<Raises(f), Cp(0)>> : f \in EngineFailures}
    \cup {<<Cp(0), Raises(f)>> : f \in EngineFailures}

\* get_centipawn_loss returning cpl itself, without the floor of 0
get_centipawn_loss_unclamped(b, move, replies) ==
    IF Failed(replies[1])
    THEN [board |-> b, raised |-> replies[1].kind, scores |-> << >>]
    ELSE LET score_best == score_to_cp(replies[1], MATE_VALUE)
             pushed == Append(b, move)
         IN IF Failed(replies[2])
            THEN [board |-> pushed, raised |-> replies[2].kind,
                  scores |-> <<score_best>>]
            ELSE LET score_actual == score_to_cp(replies[2], MATE_VALUE)
                     popped == SubSeq(pushed, 1, Len(pushed) - 1)
                     cpl == score_best - score_actual
                 IN [board |-> popped, raised |-> None,
                     scores |-> <<score_best, score_actual>>,
                     value |-> cpl]

\* get_centipawn_loss(engine, board, move) with the engine's two replies:
\* the board it leaves, the exception it raises or None, the values of
\* score_best and score_actual it has computed, and (when it returns) its
\* value.
get_centipawn_loss(b, move, replies) ==
    IF Failed(replies[1])
    THEN [board |-> b, raised |-> replies[1].kind, scores |-> << >>]
    ELSE LET score_best == score_to_cp(replies[1], MATE_VALUE)
             pushed == Append(b, move)
         IN IF Failed(replies[2])
            THEN [board |-> pushed, raised |-> replies[2].kind,
                  scores |-> <<score_best>>]
            ELSE LET score_actual == score_to_cp(replies[2], MATE_VALUE)
                     popped == SubSeq(pushed, 1, Len(pushed) - 1)
                     cpl == score_best - score_actual
                 IN [board |-> popped, raised |-> None,
                     scores |-> <<score_best, score_actual>>,
                     value |-> Max(0, cpl)]

\* What is known of one call of get_centipawn_loss once it has ended: the
\* board before and after, the engine's replies, the exception raised or
\* None, the normalized scores computed and the value returned (if any).
CallRecord(b, replies, call) ==
    [before |-> b, after |-> call.board,
     raised |-> call.raised,
     consistent |-> replies[2] = Negate(replies[1]),
     replies |-> replies,
     scores |-> call.scores,
     returned |-> IF call.raised = None THEN <<call.value>> ELSE << >>]

-----------------------------------------------------------------------------
(* Games.  A game is its PGN: the text, and the headers and mainline that  *)
(* chess.pgn.read_game parses from it.  The moves of the mainline are      *)
(* numbered 1..nplies; a position is the stack of the moves pushed.        *)

PgnGame(text, url, white, black, nplies) ==
    [text |-> text, url |-> url, white |-> white, black |-> black, nplies |-> nplies]

mainline_moves(g) == [i \in 1..g.nplies |-> i]

\* board.turn: White moves from the initial position
WHITE == "white"
BLACK == "black"
Turn(b) == IF Len(b) % 2 = 0 THEN WHITE ELSE BLACK

EmptyAnalysis ==
    [moves_analyzed |-> 0,
     mistakes_by_phase |-> EmptyDict,
     phase_cpl_sum |-> EmptyDict,
     user_cpl_values |-> << >>]

NoStats == [cpl |-> 0, count |-> 0]

\* user_turn taken from the side to move once the move is applied
user_turn_after_move(g, b) ==
    \/ (Turn(b) = BLACK /\ g.white = USERNAME)
    \/ (Turn(b) = WHITE /\ g.black = USERNAME)

user_turn(g, b) ==
    \/ (Turn(b) = WHITE /\ g.white = USERNAME)
    \/ (Turn(b) = BLACK /\ g.black = USERNAME)

\* RecordMove counting a label for every move, "Good Move" included
RecordMoveLabellingAll(data, count, cpl) ==
    LET category == get_mistake_category(cpl)
        phase == get_game_phase(count)
        label == MistakeLabel(phase, category)
        stats == DictGet(data.phase_cpl_sum, phase, NoStats)
    IN [moves_analyzed |-> data.moves_analyzed + 1,
        mistakes_by_phase |->
            DictPut(data.mistakes_by_phase, label,
                    DictGet(data.mistakes_by_phase, label, 0) + 1),
        phase_cpl_sum |->
            DictPut(data.phase_cpl_sum, phase,
                    [cpl |-> stats.cpl + cpl, count |-> stats.count + 1]),
        user_cpl_values |-> Append(data.user_cpl_values, cpl)]

\* The body of analyze_game's "if user_turn:" once cpl is known.
RecordMove(data, count, cpl) ==
    LET category == get_mistake_category(cpl)
        phase == get_game_phase(count)
        label == MistakeLabel(phase, category)
        stats == DictGet(data.phase_cpl_sum, phase, NoStats)
    IN [moves_analyzed |-> data.moves_analyzed + 1,
        mistakes_by_phase |->
            IF category # "Good Move"
            THEN DictPut(data.mistakes_by_phase, label,
                         DictGet(data.mistakes_by_phase, label, 0) + 1)
            ELSE data.mistakes_by_phase,
        phase_cpl_sum |->
            DictPut(data.phase_cpl_sum, phase,
                    [cpl |-> stats.cpl + cpl, count |-> stats.count + 1]),
        user_cpl_values |-> Append(data.user_cpl_values, cpl)]

\* analyze_game as a function of the game and of the loss get_centipawn_loss
\* returns at each ply: the loop from pass number count on.
RECURSIVE analyze_game(_, _, _, _)
analyze_game(g, count, data, cpl_at) ==
    IF count > Len(mainline_moves(g)) THEN data
    ELSE LET b == SubSeq(mainline_moves(g), 1, count - 1)
         IN analyze_game(g, count + 1,
                         IF user_turn(g, b) THEN RecordMove(data, count, cpl_at[count])
                         ELSE data,
                         cpl_at)

\* The moves recorded with a loss > 0, in the results so far and in data.
LossyIn(data) == Cardinality({i \in 1..Len(data.user_cpl_values) :
                                 data.user_cpl_values[i] > 0})
RECURSIVE LossyInAll(_)
LossyInAll(results) ==
    IF results = << >> THEN 0 ELSE LossyIn(Head(results)) + LossyInAll(Tail(results))

-----------------------------------------------------------------------------
(* aggregate_all_games *)

EmptySummary ==
    [total_user_cpl_values |-> << >>,
     total_moves_analyzed |-> 0,
     mistakes_by_phase |-> EmptyDict,
     phase_cpl_sum |-> EmptyDict]

RECURSIVE AddCountsOverwriting(_, _)
AddCountsOverwriting(acc, items) ==
    IF items = << >> THEN acc
    ELSE AddCountsOverwriting(DictPut(acc, Head(items).k, Head(items).v), Tail(items))

\* for error_type, count in items: acc[error_type] += count
RECURSIVE AddCounts(_, _)
AddCounts(acc, items) ==
    IF items = << >> THEN acc
    ELSE LET it == Head(items)
         IN AddCounts(DictPut(acc, it.k, DictGet(acc, it.k, 0) + it.v), Tail(items))

\* for phase, stats in items: acc[phase]['cpl'] += ..., acc[phase]['count'] += ...
RECURSIVE AddStats(_, _)
AddStats(acc, items) ==
    IF items = << >> THEN acc
    ELSE LET it == Head(items)
             old == DictGet(acc, it.k, NoStats)
         IN AddStats(DictPut(acc, it.k, [cpl |-> old.cpl + it.v.cpl,
                                         count |-> old.count + it.v.count]),
                     Tail(items))

\* One pass of the loop "for data in all_results".
FoldGame(summary, data) ==
    [total_user_cpl_values |-> summary.total_user_cpl_values \o data.user_cpl_values,
     total_moves_analyzed |-> summary.total_moves_analyzed + data.moves_analyzed,
     mistakes_by_phase |-> AddCounts(summary.mistakes_by_phase, data.mistakes_by_phase),
     phase_cpl_sum |-> AddStats(summary.phase_cpl_sum, data.phase_cpl_sum)]

RECURSIVE FoldGames(_, _)
FoldGames(summary, results) ==
    IF results = << >> THEN summary
    ELSE FoldGames(FoldGame(summary, Head(results)), Tail(results))

aggregate_all_games(all_results) ==
    IF all_results = << >> THEN NoneRec
    ELSE FoldGames(EmptySummary, all_results)

-----------------------------------------------------------------------------
(* generate_report.  A quotient a / b is kept as the pair [num, den]; the  *)
(* report's comparisons of quotients are made on the exact values, which   *)
(* is what float division gives for sums and counts of this size.          *)

Quot(a, b) == [num |-> a, den |-> b]
QuotGreater(q, r) == q.num * r.den > r.num * q.den

\* The loop "for phase, stats in phase_stats.items()": st holds max_acpl,
\* highest_cpl_phase, the lines printed and the divisors used.
RECURSIVE PhaseLoop(_, _)
PhaseLoop(items, st) ==
    IF items = << >> THEN st
    ELSE LET phase == Head(items).k
             stats == Head(items).v
         IN IF stats.count > 0
            THEN LET phase_acpl == Quot(stats.cpl, stats.count)
                     better == QuotGreater(phase_acpl, st.max_acpl)
                 IN PhaseLoop(Tail(items),
                       [max_acpl |-> IF better THEN phase_acpl ELSE st.max_acpl,
                        highest_cpl_phase |-> IF better THEN phase
                                              ELSE st.highest_cpl_phase,
                        lines |-> Append(st.lines, [phase |-> phase, acpl |-> phase_acpl]),
                        divisors |-> Append(st.divisors, stats.count)])
            ELSE PhaseLoop(Tail(items), st)

\* max(items, key=count): the first item with the largest count
MostCommon(items) ==
    LET i == CHOOSE i \in 1..Len(items) :
                 /\ \A j \in 1..Len(items) : items[j].v <= items[i].v
                 /\ \A j \in 1..(i - 1) : items[j].v < items[i].v
    IN items[i]

RECURSIVE SumCounts(_)
SumCounts(items) == IF items = << >> THEN 0 ELSE Head(items).v + SumCounts(Tail(items))

\* "if not user_cpl_values"
NoMovesNever(user_cpl_values) == FALSE
NoMoves(user_cpl_values) == user_cpl_values = << >>

\* "max_acpl = -1"
InitialMaxZero == Quot(0, 1)
InitialMax == Quot(INITIAL_MAX_ACPL, 1)

generate_report(aggregated_data) ==
    IF aggregated_data = NoneRec
    THEN [out |-> "No aggregated data to report.", divisors |-> << >>]
    ELSE LET user_cpl_values == aggregated_data.total_user_cpl_values
         IN IF NoMoves(user_cpl_values)
            THEN [out |-> "No moves were analyzed for the user across all games.",
                  divisors |-> << >>]
            ELSE LET avg_cpl == Quot(SumSeq(user_cpl_values), Len(user_cpl_values))
                     scan == PhaseLoop(aggregated_data.phase_cpl_sum,
                                       [max_acpl |-> InitialMax,
                                        highest_cpl_phase |-> None,
                                        lines |-> << >>,
                                        divisors |-> <<Len(user_cpl_values)>>])
                     mistake_counts == aggregated_data.mistakes_by_phase
                     listed == mistake_counts # EmptyDict
                               /\ MostCommon(mistake_counts).v > 0
                 IN [out |-> "COACHING REPORT",
                     avg_cpl |-> avg_cpl,
                     phase_lines |-> scan.lines,
                     primary_focus |-> scan.highest_cpl_phase,
                     most_common_error |->
                         IF listed THEN MostCommon(mistake_counts).k ELSE None,
                     total_mistakes |->
                         IF listed THEN SumCounts(mistake_counts) ELSE 0,
                     divisors |-> scan.divisors]

-----------------------------------------------------------------------------
(* analyze_game, one action per pass of its loop *)

\* analyze_game(game_pgn, engine) up to the loop: main's loop hands it the
\* next game of games_to_analyze.
AnalyzeStart ==
    /\ pc = "analysis"
    /\ Len(all_cpl_results) < Len(games_to_analyze)
    /\ game' = games_to_analyze[Len(all_cpl_results) + 1]
    /\ board' = << >>
    /\ move_count' = 0
    /\ analysis_data' = EmptyAnalysis
    /\ pc' = "replay"
    /\ UNCHANGED <<script, max_games, dbVars, engine, fetchVars, games_pgn_list,
                   checked, games_to_analyze, all_cpl_results, last_call,
                   reportVars, caught, raised>>

\* A pass of the loop for a move that is not the tracked player's: it makes
\* no call of get_centipawn_loss.
AnalyzeOtherMove ==
    /\ pc = "replay"
    /\ move_count < Len(mainline_moves(game))
    /\ ~user_turn(game, board)
    /\ move_count' = move_count + 1
    /\ board' = Append(board, mainline_moves(game)[move_count + 1])
    /\ last_call' = NoneRec
    /\ UNCHANGED <<pc, script, max_games, dbVars, engine, fetchVars, games_pgn_list,
                   checked, games_to_analyze, all_cpl_results, game, analysis_data,
                   reportVars, caught, raised>>

\* A pass of the loop for a move of the tracked player: get_centipawn_loss
\* returns and the move is recorded and pushed, or it raises and the
\* exception leaves analyze_game.
AnalyzeUserMove ==
    /\ pc = "replay"
    /\ move_count < Len(mainline_moves(game))
    /\ user_turn(game, board)
    /\ \E replies \in EngineReplies :
         LET count == move_count + 1
             move == mainline_moves(game)[count]
             call == get_centipawn_loss(board, move, replies)
         IN /\ move_count' = count
            /\ last_call' = CallRecord(board, replies, call)
            /\ IF call.raised # None
               THEN /\ raised' = call.raised
                    /\ engine' = IF call.raised = EngineTerminated THEN "dead" ELSE engine
                    /\ board' = call.board
                    /\ pc' = "except"
                    /\ UNCHANGED analysis_data
               ELSE /\ call.value > 0 =>
                         LossyInAll(all_cpl_results) + LossyIn(analysis_data) < MaxLossyMoves
                    /\ analysis_data' = RecordMove(analysis_data, count, call.value)
                    /\ board' = Append(call.board, move)
                    /\ UNCHANGED <<pc, raised, engine>>
    /\ UNCHANGED <<script, max_games, dbVars, fetchVars, games_pgn_list, checked,
                   games_to_analyze, all_cpl_results, game, reportVars, caught>>

\* "return analysis_data", and main's all_cpl_results.append(result).
AnalyzeReturn ==
    /\ pc = "replay"
    /\ move_count = Len(mainline_moves(game))
    /\ all_cpl_results' = Append(all_cpl_results, analysis_data)
    /\ pc' = IF script = "chessdotcom" THEN "save" ELSE "analysis"
    /\ last_call' = NoneRec
    /\ UNCHANGED <<script, max_games, dbVars, engine, fetchVars, games_pgn_list,
                   checked, games_to_analyze, game, board, move_count,
                   analysis_data, reportVars, caught, raised>>

-----------------------------------------------------------------------------------------------------------------------------------------------------
(* The store: table analyzed_games behind a psycopg2 connection.           *)
(* A statement that fails inside a transaction leaves the transaction      *)
(* aborted: every later statement fails until a rollback.  A lost          *)
(* connection fails the statement, and every later use of the connection   *)
(* (cursor(), rollback()) raises.                                          *)

\* hashlib.sha256(pgn_bytes).hexdigest(): a name fixed by the text, distinct
\* texts giving distinct names
Sha256Hex(text) == "sha256(" \o text \o ")"

\* The identifier both is_game_analyzed and save_game_analysis derive.
GameId(game_pgn) ==
    LET game_url == game_pgn.url
    IN IF game_url = None \/ game_url = ""
       THEN "SHA256_" \o Sha256Hex(game_pgn.text)
       ELSE game_url

DbOutcomes == {"ok", "error", "lost"}

\* cursor.execute on the connection: the exception it raises (or None) and
\* the connection and transaction it leaves.
Execute(c, t, outcome) ==
    IF outcome = "lost"
    THEN [raised |-> "OperationalError", conn |-> "broken", txn |-> t]
    ELSE IF t = "aborted"
    THEN [raised |-> "InFailedSqlTransaction", conn |-> c, txn |-> t]
    ELSE IF outcome = "error"
    THEN [raised |-> "DatabaseError", conn |-> c, txn |-> "aborted"]
    ELSE [raised |-> None, conn |-> c, txn |-> "active"]

\* is_game_analyzed(conn, game_pgn): the exception that escapes it (or None),
\* its return value, and the connection and transaction it leaves.
is_game_analyzed(c, t, rows, game_pgn, outcome) ==
    LET game_url == GameId(game_pgn)
    IN IF c # "open"
       THEN \* conn.cursor() is outside the try
            [raised |-> "InterfaceError", result |-> FALSE, conn |-> c, txn |-> t,
             failed |-> TRUE]
       ELSE LET ex == Execute(c, t, outcome)
            IN IF ex.raised = None
               THEN [raised |-> None,
                     result |-> \E r \in rows : r.game_url = game_url,
                     conn |-> ex.conn, txn |-> ex.txn, failed |-> FALSE]
               ELSE \* except Exception: print, return False
                    [raised |-> None, result |-> FALSE,
                     conn |-> ex.conn, txn |-> ex.txn, failed |-> TRUE]

\* The names save_game_analysis reads for the parameters of its INSERT, and
\* the names bound when it does: its locals and the module's globals.
InsertParams ==
    <<"game_url", "USERNAME", "game_date", "game_pgn", "overall_acpl",
      "opening_acpl", "middlegame_acpl", "endgame_acpl", "mistake_json">>
SaveLocals ==
    {"conn", "game_pgn", "analysis_data", "pgn_io", "game", "game_url",
     "pgn_bytes", "game_hash", "game_date", "mistake_json", "cursor",
     "insert_query"}
ModuleGlobals ==
    {"DB_NAME", "DB_USER", "DB_PASSWORD", "DB_HOST", "USERNAME", "NUM_GAMES",
     "STOCKFISH_PATH", "ANALYSIS_DEPTH"}
UnboundParams ==
    {InsertParams[i] : i \in 1..Len(InsertParams)} \ (SaveLocals \cup ModuleGlobals)

\* INSERT ... ON CONFLICT (game_url) DO UPDATE SET <acpl columns>,
\* mistake_breakdown = EXCLUDED.mistake_breakdown
Upsert(rows, row) ==
    IF \E r \in rows : r.game_url = row.game_url
    THEN {IF r.game_url = row.game_url
          THEN [r EXCEPT !.mistake_breakdown = row.mistake_breakdown]
          ELSE r : r \in rows}
    ELSE rows \cup {row}

Row(game_pgn, mistakes) ==
    [game_url |-> GameId(game_pgn), username |-> USERNAME,
     pgn |-> game_pgn.text, mistake_breakdown |-> mistakes]

\* conn.rollback(): raises on a connection that is lost
Rollback(c, t) ==
    IF c # "open"
    THEN [raised |-> "InterfaceError", conn |-> c, txn |-> t]
    ELSE [raised |-> None, conn |-> c, txn |-> "idle"]

\* save_game_analysis(conn, game_pgn, analysis_data): the exception that
\* escapes it (or None), and the connection, transaction and rows it leaves.
save_game_analysis(c, t, rows, game_pgn, data, outcome) ==
    IF c # "open"
    THEN \* conn.cursor() is outside the try
         [raised |-> "InterfaceError", conn |-> c, txn |-> t, rows |-> rows,
          failed |-> TRUE, executed |-> FALSE]
    ELSE IF UnboundParams # {}
    THEN \* NameError building the parameters: except, rollback
         LET rb == Rollback(c, t)
         IN [raised |-> rb.raised, conn |-> rb.conn, txn |-> rb.txn, rows |-> rows,
             failed |-> TRUE, executed |-> FALSE]
    ELSE LET ex == Execute(c, t, outcome)
         IN IF ex.raised = None
            THEN \* conn.commit()
                 [raised |-> None, conn |-> ex.conn, txn |-> "idle",
                  rows |-> Upsert(rows, Row(game_pgn, data.mistakes_by_phase)),
                  failed |-> FALSE, executed |-> TRUE]
            ELSE LET rb == Rollback(ex.conn, ex.txn)
                 IN [raised |-> rb.raised, conn |-> rb.conn, txn |-> rb.txn,
                     rows |-> rows, failed |-> TRUE, executed |-> TRUE]

-----------------------------------------------------------------------------
(* fetch_chessdotcom_games, one action per HTTP request *)

GAME_A == PgnGame("pgn_a", "https://www.chess.com/game/live/1", USERNAME, "opponent", 1)
GAME_B == PgnGame("pgn_b", None, "opponent", USERNAME, 2)
MainGames == {GAME_A, GAME_B}

\* An entry of an archive's 'games' whose 'pgn' is missing or empty.
NoPgn == PgnGame("", None, "", "", 0)
FetchEntries == MainGames \cup {NoPgn}

SeqsUpTo(S, n) == UNION {[1..k -> S] : k \in 0..n}

\* What the API answers for the archive list: a 2xx reply naming archives
\* 1..n (oldest first), a reply with an error status, or no reply at all.
ArchiveListReplies ==
    {[kind |-> "ok", status |-> 200, archives |-> [i \in 1..n |-> i]] : n \in 0..MaxArchives}
    \cup {[kind |-> "http_error", status |-> st, archives |-> << >>] : st \in {404, 403, 500}}
    \cup {[kind |-> "no_response", status |-> 0, archives |-> << >>]}

\* What the API answers for one monthly archive.
ArchiveReplies ==
    {[kind |-> "ok", games |-> gs] : gs \in SeqsUpTo(FetchEntries, MaxArchiveGames)}
    \cup {[kind |-> k, games |-> << >>] : k \in {"http_error", "no_response"}}

\* The try/except around the archive-list request: what the function does
\* next ("loop", "return" or "raise") and what it printed.
ArchiveListStep(reply) ==
    IF reply.kind = "ok"
    THEN [next |-> "loop", printed |-> None, raised |-> None]
    ELSE \* except RequestException: the handler reads response.status_code
         IF reply.kind = "no_response"
         THEN \* requests.get raised: response was never bound
              [next |-> "raise", printed |-> None, raised |-> "UnboundLocalError"]
         ELSE [next |-> "return",
               printed |-> IF reply.status = 404 THEN "Error: Username not found (404)."
                           ELSE IF reply.status = 403 THEN "Error: Access Forbidden (403)."
                           ELSE "Error fetching archives",
               raised |-> None]

\* The loop "for game_data in reversed(games_json)" over the entries in
\* visiting order: the list it leaves and whether it returned it.
RECURSIVE ScanGames(_, _, _)
ScanGames(data, entries, max) ==
    IF entries = << >> THEN [data |-> data, returned |-> FALSE]
    ELSE LET pgn_text == Head(entries)
             d2 == IF pgn_text.text # "" /\ Len(data) < max
                   THEN Append(data, pgn_text) ELSE data
         IN IF Len(d2) >= max
            THEN [data |-> d2, returned |-> TRUE]
            ELSE ScanGames(d2, Tail(entries), max)

\* The entries of an archive that carry a PGN.
RECURSIVE WithPgn(_)
WithPgn(entries) ==
    IF entries = << >> THEN << >>
    ELSE IF Head(entries).text # "" THEN <<Head(entries)>> \o WithPgn(Tail(entries))
    ELSE WithPgn(Tail(entries))

\* The order the loop visits the archives in.
VisitOrder(urls) == Reverse(urls)

FetchArchiveList ==
    /\ pc = "fetch" /\ script = "chessdotcom"
    /\ \E reply \in ArchiveListReplies :
         LET step == ArchiveListStep(reply)
         IN /\ archives' = reply.archives
            /\ pending' = VisitOrder(reply.archives)
            /\ all_pgn_data' = << >>
            /\ served' = << >>
            /\ listing' = reply
            /\ IF step.next = "loop"
               THEN pc' = "fetch_loop" /\ UNCHANGED <<games_pgn_list, raised>>
               ELSE IF step.next = "return"
               THEN pc' = "fetched" /\ games_pgn_list' = << >> /\ UNCHANGED raised
               ELSE pc' = "except" /\ raised' = step.raised /\ UNCHANGED games_pgn_list
    /\ UNCHANGED <<script, max_games, dbVars, engine, checked, games_to_analyze,
                   all_cpl_results, replayVars, reportVars, caught>>

\* One pass of the loop "for url in reversed(archives)".
FetchArchive ==
    /\ pc = "fetch_loop" /\ pending # << >>
    /\ \E reply \in ArchiveReplies :
         LET url == Head(pending)
             scan == ScanGames(all_pgn_data, Reverse(reply.games), max_games)
         IN /\ served' = served \o WithPgn(Reverse(reply.games))
            /\ pending' = Tail(pending)
            /\ IF reply.kind # "ok"
               THEN \* except RequestException: print, continue
                    UNCHANGED <<pc, all_pgn_data, games_pgn_list>>
               ELSE /\ all_pgn_data' = scan.data
                    /\ IF scan.returned
                       THEN pc' = "fetched" /\ games_pgn_list' = scan.data
                       ELSE UNCHANGED <<pc, games_pgn_list>>
    /\ UNCHANGED <<script, max_games, dbVars, engine, archives, listing, checked,
                   games_to_analyze, all_cpl_results, replayVars, reportVars,
                   caught, raised>>

\* The loop is over: "return all_pgn_data".
FetchReturn ==
    /\ pc = "fetch_loop" /\ pending = << >>
    /\ games_pgn_list' = all_pgn_data
    /\ pc' = "fetched"
    /\ UNCHANGED <<script, max_games, dbVars, engine, fetchVars, checked,
                   games_to_analyze, all_cpl_results, replayVars, reportVars,
                   caught, raised>>

-----------------------------------------------------------------------------
(* main() of fetch_games_chess_dot_com.py and the main block of            *)
(* fetech_games.py                                                         *)

\* conn = get_db_connection(); "if conn is None: return"
Connect ==
    /\ pc = "start" /\ script = "chessdotcom"
    /\ \E connected \in BOOLEAN :
         IF connected
         THEN conn' = "open" /\ pc' = "engine_init"
         ELSE conn' = "none" /\ pc' = "finally"
    /\ UNCHANGED <<script, max_games, txn, store, db_log, saved_ok, saved_prev,
                   engine, fetchVars, games_pgn_list, checked, games_to_analyze,
                   all_cpl_results, replayVars, reportVars, caught, raised>>

\* engine = chess.engine.SimpleEngine.popen_uci(STOCKFISH_PATH)
StartEngine ==
    /\ pc = "engine_init"
    /\ \E started \in BOOLEAN :
         IF started
         THEN engine' = "running" /\ pc' = "fetch" /\ UNCHANGED raised
         ELSE raised' = "EngineStartError" /\ pc' = "except" /\ UNCHANGED engine
    /\ UNCHANGED <<script, max_games, dbVars, fetchVars, games_pgn_list, checked,
                   games_to_analyze, all_cpl_results, replayVars, reportVars,
                   caught>>

\* "if not games_pgn_list: return", else the filter loop begins.
CheckFetched ==
    /\ pc = "fetched"
    /\ pc' = IF games_pgn_list = << >> THEN "finally" ELSE "filter"
    /\ games_to_analyze' = << >>
    /\ checked' = 0
    /\ archives' = << >> /\ pending' = << >> /\ all_pgn_data' = << >>
    /\ served' = << >> /\ listing' = NoneRec
    /\ UNCHANGED <<script, max_games, dbVars, engine, games_pgn_list,
                   all_cpl_results, replayVars, reportVars, caught, raised>>

\* One pass of "for game_pgn in games_pgn_list":
\* "if conn and is_game_analyzed(conn, game_pgn)", skip, else keep.
FilterGame ==
    /\ pc = "filter" /\ checked < Len(games_pgn_list)
    /\ \E outcome \in DbOutcomes :
         LET game_pgn == games_pgn_list[checked + 1]
             r == is_game_analyzed(conn, txn, store, game_pgn, outcome)
         IN /\ conn' = r.conn
            /\ txn' = r.txn
            /\ db_log' = [op |-> "is_game_analyzed", id |-> GameId(game_pgn),
                          outcome |-> outcome, failed |-> r.failed,
                          escaped |-> r.raised, conn_before |-> conn]
            /\ IF r.raised # None
               THEN raised' = r.raised /\ pc' = "except"
                    /\ UNCHANGED <<checked, games_to_analyze>>
               ELSE /\ checked' = checked + 1
                    /\ games_to_analyze' = IF r.result THEN games_to_analyze
                                           ELSE Append(games_to_analyze, game_pgn)
                    /\ UNCHANGED <<pc, raised>>
    /\ UNCHANGED <<script, max_games, store, saved_ok, saved_prev, engine, fetchVars,
                   games_pgn_list, all_cpl_results, replayVars, reportVars,
                   caught>>

\* The filter loop is over: "Found n new game(s) needing analysis."
FilterDone ==
    /\ pc = "filter" /\ checked = Len(games_pgn_list)
    /\ pc' = "analysis"
    /\ UNCHANGED <<script, max_games, dbVars, engine, fetchVars, games_pgn_list,
                   checked, games_to_analyze, all_cpl_results, replayVars,
                   reportVars, caught, raised>>

\* save_game_analysis(conn, game_pgn, result)
SaveGame ==
    /\ pc = "save"
    /\ \E outcome \in DbOutcomes :
         LET game_pgn == games_to_analyze[Len(all_cpl_results)]
             result == all_cpl_results[Len(all_cpl_results)]
             r == save_game_analysis(conn, txn, store, game_pgn, result, outcome)
         IN /\ conn' = r.conn
            /\ txn' = r.txn
            /\ store' = r.rows
            /\ db_log' = [op |-> "save_game_analysis", id |-> GameId(game_pgn),
                          outcome |-> IF r.executed THEN outcome ELSE "ok",
                          failed |-> r.failed,
                          escaped |-> r.raised, conn_before |-> conn]
            /\ saved_ok' = IF conn = "open" /\ txn # "aborted"
                              /\ (r.executed => outcome = "ok")
                           THEN saved_ok \cup {GameId(game_pgn)} ELSE saved_ok
            /\ IF r.raised # None
               THEN raised' = r.raised /\ pc' = "except"
               ELSE pc' = "analysis" /\ UNCHANGED raised
    /\ UNCHANGED <<script, max_games, saved_prev, engine, fetchVars, games_pgn_list,
                   checked, games_to_analyze, all_cpl_results, replayVars,
                   reportVars, caught>>

\* final_summary = aggregate_all_games(all_cpl_results)
Aggregate ==
    /\ pc = "analysis"
    /\ Len(all_cpl_results) = Len(games_to_analyze)
    /\ final_summary' = aggregate_all_games(all_cpl_results)
    /\ pc' = "report"
    /\ UNCHANGED <<script, max_games, dbVars, engine, fetchVars, games_pgn_list,
                   checked, games_to_analyze, all_cpl_results, replayVars, report,
                   caught, raised>>

\* chess.com: "if final_summary: generate_report(final_summary) else: print";
\* lichess: generate_report(final_summary)
Report ==
    /\ pc = "report"
    /\ report' = IF script = "chessdotcom" /\ final_summary = NoneRec
                 THEN [out |-> "No new analysis was performed.", divisors |-> << >>]
                 ELSE generate_report(final_summary)
    /\ pc' = "finally"
    /\ UNCHANGED <<script, max_games, dbVars, engine, fetchVars, games_pgn_list,
                   checked, games_to_analyze, all_cpl_results, replayVars,
                   final_summary, caught, raised>>

\* except Exception as e: print(f"AN ERROR OCCURRED: {e}")
Except ==
    /\ pc = "except"
    /\ caught' = raised
    /\ raised' = None
    /\ pc' = "finally"
    /\ UNCHANGED <<script, max_games, dbVars, engine, fetchVars, games_pgn_list,
                   checked, games_to_analyze, all_cpl_results, replayVars,
                   reportVars>>

EngineQuitSkipped(e) == e

\* engine.quit(): ends a running process; on a process that is gone it raises
EngineQuit(e) == IF e = "running" THEN "quit" ELSE e

\* conn.close()
ConnClose(c) == IF c \in {"open", "broken"} THEN "closed" ELSE c

\* finally: quit the engine if one was started, close the connection if one
\* was opened.
Cleanup ==
    /\ pc = "finally"
    /\ engine' = EngineQuit(engine)
    /\ conn' = ConnClose(conn)
    /\ txn' = "idle"
    /\ pc' = "done"
    /\ UNCHANGED <<script, max_games, store, db_log, saved_ok, saved_prev, fetchVars,
                   games_pgn_list, checked, games_to_analyze, all_cpl_results,
                   replayVars, reportVars, caught, raised>>

\* The script is run again over the same store.
Restart ==
    /\ pc = "done"
    /\ saved_prev' = saved_prev \cup saved_ok
    /\ saved_ok' = {}
    /\ pc' = IF script = "chessdotcom" THEN "start" ELSE "engine_init"
    /\ conn' = "none" /\ txn' = "idle" /\ engine' = "none"
    /\ games_pgn_list' = << >> /\ checked' = 0
    /\ games_to_analyze' = << >> /\ all_cpl_results' = << >>
    /\ game' = NoneRec /\ board' = << >> /\ move_count' = 0
    /\ analysis_data' = EmptyAnalysis /\ last_call' = NoneRec
    /\ final_summary' = NoneRec /\ report' = NoneRec
    /\ caught' = None /\ raised' = None /\ db_log' = NoneRec
    /\ archives' = << >> /\ pending' = << >> /\ all_pgn_data' = << >>
    /\ served' = << >> /\ listing' = NoneRec
    /\ UNCHANGED <<script, max_games, store>>

\* fetech_games.py: games = client.games.export_by_player(USERNAME, max=NUM_GAMES);
\* the loop "for game_pgn in games" receives these games.
FetchLichess ==
    /\ pc = "fetch" /\ script = "lichess"
    /\ \E games \in SeqsUpTo(MainGames, max_games) : games_to_analyze' = games
    /\ pc' = "analysis"
    /\ UNCHANGED <<script, max_games, dbVars, engine, fetchVars, games_pgn_list,
                   checked, all_cpl_results, replayVars, reportVars, caught,
                   raised>>

\* fetech_games.py: the stream of games breaks instead of ending.
LichessStreamError ==
    /\ pc = "analysis" /\ script = "lichess"
    /\ Len(all_cpl_results) = Len(games_to_analyze)
    /\ raised' = "ApiError"
    /\ pc' = "except"
    /\ UNCHANGED <<script, max_games, dbVars, engine, fetchVars, games_pgn_list,
                   checked, games_to_analyze, all_cpl_results, replayVars,
                   reportVars, caught>>

-----
(* Initial states *)

Fresh(name, entry) ==
    /\ script = name
    /\ pc = entry
    /\ conn = "none" /\ txn = "idle"
    /\ archives = << >> /\ pending = << >> /\ all_pgn_data = << >> /\ served = << >>
    /\ listing = NoneRec
    /\ games_pgn_list = << >> /\ checked = 0
    /\ game = NoneRec /\ board = << >> /\ move_count = 0
    /\ analysis_data = EmptyAnalysis /\ last_call = NoneRec
    /\ final_summary = NoneRec /\ report = NoneRec
    /\ caught = None /\ raised = None /\ db_log = NoneRec
    /\ saved_ok = {} /\ saved_prev = {}

\* analyze_game called alone on one game, with a running engine.
AnalyzeLengths == {0, 1, 2, 11, MaxPlies}

UnitGames ==
    {PgnGame("pgn_unit", None, names[1], names[2], n) :
        names \in {<<USERNAME, "opponent">>, <<"opponent", USERNAME>>,
                   <<"opponent", "rival">>},
        n \in AnalyzeLengths}

InitAnalyze ==
    /\ Fresh("unit", "analysis")
    /\ engine = "running"
    /\ max_games = 1
    /\ store = {}
    /\ all_cpl_results = << >>
    /\ \E g \in UnitGames : games_to_analyze = <<g>>

NextAnalyze ==
    \/ AnalyzeStart
    \/ AnalyzeOtherMove
    \/ AnalyzeUserMove
    \/ AnalyzeReturn

SpecAnalyze == InitAnalyze /\ [][NextAnalyze]_vars


\* Either script, run from its first statement.  The store holds any rows
\* left by earlier runs.
InitialRows == {Row(g, EmptyDict) : g \in MainGames}

Init ==
    /\ \/ Fresh("chessdotcom", "start") /\ store \in SUBSET InitialRows
       \/ Fresh("lichess", "engine_init") /\ store = {}
    /\ engine = "none"
    /\ games_to_analyze = << >> /\ all_cpl_results = << >>
    /\ max_games \in 0..MaxGames

Next ==
    \/ Connect
    \/ StartEngine
    \/ FetchArchiveList
    \/ FetchArchive
    \/ FetchReturn
    \/ CheckFetched
    \/ FilterGame
    \/ FilterDone
    \/ AnalyzeStart
    \/ AnalyzeOtherMove
    \/ AnalyzeUserMove
    \/ AnalyzeReturn
    \/ SaveGame
    \/ Aggregate
    \/ Report
    \/ Except
    \/ Cleanup
    \/ Restart
    \/ FetchLichess
    \/ LichessStreamError

Spec == Init /\ [][Next]_vars

\* aggregate_all_games and generate_report called alone, on the results
\* analyze_game gives for up to MaxResults games: games of 1, 12 and 31
\* plies with the tracked player as White, where at most one ply loses.
ReportLengths == {1, 12, 31}
ReportLosses == {60, 400}
LossAt(p, v) == [q \in 1..31 |-> IF q = p THEN v ELSE 0]

ReportCases ==
    {[game |-> PgnGame("pgn_r", None, USERNAME, "opponent", n), cpl_at |-> LossAt(p, v)] :
        n \in ReportLengths, p \in {1, 11, 31}, v \in ReportLosses \cup {0}}
    \cup {[game |-> PgnGame("pgn_s", None, "opponent", "rival", 1), cpl_at |-> LossAt(1, 0)]}

InitReport ==
    /\ Fresh("unit", "analysis")
    /\ engine = "running"
    /\ max_games = 1
    /\ store = {}
    /\ \E cases \in SeqsUpTo(ReportCases, MaxResults) :
         /\ games_to_analyze = [i \in 1..Len(cases) |-> cases[i].game]
         /\ all_cpl_results =
              [i \in 1..Len(cases) |->
                 analyze_game(cases[i].game, 1, EmptyAnalysis, cases[i].cpl_at)]

NextReport ==
    \/ Aggregate
    \/ Report

SpecReport == InitReport /\ [][NextReport]_vars

\* get_centipawn_loss called alone, on any board of up to two moves and for
\* any two evaluations the engine can give: a mate in up to MaxMate moves for
\* either side, the mated position, or a centipawn value, among them the
\* values next to the mate band.
ScoreInputs ==
    {Mate(n) : n \in -MaxMate..MaxMate}
    \cup {Cp(c) : c \in {0, 30, -30,
                         MATE_VALUE - MaxMate - 1, -(MATE_VALUE - MaxMate - 1),
                         MATE_VALUE - MaxMate, -(MATE_VALUE - MaxMate)}}

CentipawnLossCall ==
    /\ pc = "score"
    /\ \E b \in {<< >>, <<1>>, <<1, 2>>} : \E replies \in ScoreInputs \X ScoreInputs :
         LET call == get_centipawn_loss(b, Len(b) + 1, replies)
         IN /\ board' = call.board
            /\ last_call' = CallRecord(b, replies, call)
    /\ UNCHANGED <<pc, script, max_games, dbVars, engine, fetchVars, games_pgn_list,
                   checked, games_to_analyze, all_cpl_results, game, move_count,
                   analysis_data, reportVars, caught, raised>>

InitScore ==
    /\ Fresh("unit", "score")
    /\ engine = "running"
    /\ max_games = 1
    /\ store = {}
    /\ games_to_analyze = << >> /\ all_cpl_results = << >>

NextScore == CentipawnLossCall

SpecScore == InitScore /\ [][NextScore]_vars

-----------------------------------------------------------------------------
(* Properties *)

RECURSIVE SumTo(_, _)
SumTo(f, n) == IF n = 0 THEN 0 ELSE f[n] + SumTo(f, n - 1)

Take(seq, n) == SubSeq(seq, 1, IF Len(seq) < n THEN Len(seq) ELSE n)

Aggregated == pc \in {"report", "finally", "done"}
Reported == pc \in {"finally", "done"} /\ report # NoneRec

\* C1: a 1-move game in which the tracked player, as White, plays the
\* engine's top move and the engine's two evaluations are consistent (the
\* second is the negation of the first) gets the CPL list <<0>>, no mistake
\* label, one Opening move of loss 0, and an aggregate average CPL of 0.
C1_TopMoveCostsNothing ==
    ( /\ pc = "replay"
      /\ Len(mainline_moves(game)) = 1 /\ game.white = USERNAME
      /\ move_count = 1
      /\ last_call # NoneRec /\ last_call.raised = None /\ last_call.consistent )
    => /\ analysis_data.user_cpl_values = <<0>>
       /\ analysis_data.mistakes_by_phase = EmptyDict
       /\ analysis_data.phase_cpl_sum = <<[k |-> "Opening", v |-> [cpl |-> 0, count |-> 1]]>>
       /\ generate_report(aggregate_all_games(<<analysis_data>>)).avg_cpl.num = 0

\* C6: whenever a call of get_centipawn_loss has ended, by returning or by
\* raising, the board is the board the call was given.
C6_BoardRestored ==
    last_call # NoneRec => last_call.after = last_call.before

\* C7: for a non-empty sequence of per-game results the summary's CPL list is
\* the games' CPL lists one after the other, its move count the sum of the
\* games' move counts, each label's count the sum of the games' counts of
\* that label (0 where a game lacks it), and each phase's CPL sum and move
\* count the sums of the games' values for that phase.
C7_AggregateSums ==
    (Aggregated /\ all_cpl_results # << >>) =>
        LET R == all_cpl_results
            n == Len(R)
            S == final_summary
            lens == [j \in 1..n |-> Len(R[j].user_cpl_values)]
        IN /\ S # NoneRec
           /\ Len(S.total_user_cpl_values) = SumTo([j \in 1..n |-> R[j].moves_analyzed], n)
           /\ \A i \in 1..n : \A k \in 1..lens[i] :
                 S.total_user_cpl_values[SumTo(lens, i - 1) + k] = R[i].user_cpl_values[k]
           /\ S.total_moves_analyzed = SumTo([j \in 1..n |-> R[j].moves_analyzed], n)
           /\ \A l \in Labels \cup Keys(S.mistakes_by_phase) :
                 DictGet(S.mistakes_by_phase, l, 0)
                   = SumTo([j \in 1..n |-> DictGet(R[j].mistakes_by_phase, l, 0)], n)
           /\ \A ph \in Phases \cup Keys(S.phase_cpl_sum) :
                 /\ DictGet(S.phase_cpl_sum, ph, NoStats).cpl
                      = SumTo([j \in 1..n |-> DictGet(R[j].phase_cpl_sum, ph, NoStats).cpl], n)
                 /\ DictGet(S.phase_cpl_sum, ph, NoStats).count
                      = SumTo([j \in 1..n |-> DictGet(R[j].phase_cpl_sum, ph, NoStats).count], n)

\* Two games were aggregated that both count the same label.
C7_Witness ==
    /\ pc = "report" /\ Len(all_cpl_results) = 2
    /\ \E l \in Labels : DictGet(final_summary.mistakes_by_phase, l, 0) = 2

NothingMessages ==
    {"No aggregated data to report.",
     "No moves were analyzed for the user across all games."}

\* C8: aggregating no results gives None; given None, or a summary of games
\* without any tracked-player move, generate_report prints a nothing-to-analyze
\* message and divides nothing; and it never divides by a count that is not
\* greater than 0.
C8_NoArithmeticOnEmptyData ==
    /\ (Aggregated /\ all_cpl_results = << >>) => final_summary = NoneRec
    /\ Reported =>
         /\ ( \A i \in 1..Len(all_cpl_results) : all_cpl_results[i].moves_analyzed = 0 )
              => (report.out \in NothingMessages /\ report.divisors = << >>)
         /\ \A i \in 1..Len(report.divisors) : report.divisors[i] > 0

\* A summary of games without tracked-player moves was reported.
C8_Witness ==
    /\ Reported /\ all_cpl_results # << >>
    /\ \A i \in 1..Len(all_cpl_results) : all_cpl_results[i].moves_analyzed = 0
    /\ final_summary # NoneRec

\* C10: for a summary with at least one tracked-player move the report names
\* one phase as primary focus; that phase has a recorded move and its average
\* CPL is at least the average of every phase that has a recorded move.
C10_PrimaryFocusIsWorstPhase ==
    (Reported /\ final_summary # NoneRec /\ final_summary.total_moves_analyzed >= 1) =>
        LET stats == final_summary.phase_cpl_sum
            focus == report.primary_focus
            mine == DictGet(stats, focus, NoStats)
        IN /\ focus \in Keys(stats)
           /\ mine.count >= 1
           /\ \A q \in Keys(stats) :
                 LET other == DictGet(stats, q, NoStats)
                 IN other.count >= 1 => mine.cpl * other.count >= other.cpl * mine.count

\* Every recorded loss is 0, in two phases or more, and a focus was named.
C10_Witness ==
    /\ Reported /\ final_summary # NoneRec
    /\ final_summary.total_moves_analyzed >= 1
    /\ SumSeq(final_summary.total_user_cpl_values) = 0
    /\ Cardinality(Keys(final_summary.phase_cpl_sum)) >= 2
    /\ report.primary_focus \in Phases

\* The phase and severity C9 states for half-move count p and loss c.
ClaimedPhase(p) ==
    IF p <= 10 THEN "Opening" ELSE IF p <= 30 THEN "Middlegame" ELSE "Endgame"
ClaimedSeverity(c) ==
    IF c > 300 THEN "Blunder"
    ELSE IF c > 100 THEN "Mistake"
    ELSE IF c > 50 THEN "Inaccuracy"
    ELSE "Good Move"

\* C9: a step of analyze_game that records a tracked-player move at half-move
\* count p with loss c adds c and one move to the bucket of the phase of p
\* (Opening up to 10, Middlegame up to 30, Endgame beyond) and to no other,
\* and adds one to the label "<phase> - <severity>" (Blunder over 300, Mistake
\* over 100, Inaccuracy over 50) and to no other, to none at all when c <= 50.
C9_PhaseAndSeverity ==
    [][ ( /\ pc = "replay"
          /\ Len(analysis_data'.user_cpl_values) = Len(analysis_data.user_cpl_values) + 1 )
        => LET p == move_count'
               c == analysis_data'.user_cpl_values[Len(analysis_data'.user_cpl_values)]
               label == ClaimedPhase(p) \o " - " \o ClaimedSeverity(c)
           IN /\ \A ph \in Phases \cup Keys(analysis_data'.phase_cpl_sum) :
                    LET old == DictGet(analysis_data.phase_cpl_sum, ph, NoStats)
                        new == DictGet(analysis_data'.phase_cpl_sum, ph, NoStats)
                    IN IF ph = ClaimedPhase(p)
                       THEN new.cpl = old.cpl + c /\ new.count = old.count + 1
                       ELSE new = old
              /\ \A l \in Labels \cup Keys(analysis_data'.mistakes_by_phase) :
                    DictGet(analysis_data'.mistakes_by_phase, l, 0)
                      = DictGet(analysis_data.mistakes_by_phase, l, 0)
                        + (IF c > 50 /\ l = label THEN 1 ELSE 0)
      ]_vars

\* The move at half-move count 31 was recorded with loss 301 as an Endgame
\* Blunder.
C9_Witness ==
    /\ pc = "replay" /\ move_count = 31
    /\ analysis_data.user_cpl_values # << >>
    /\ analysis_data.user_cpl_values[Len(analysis_data.user_cpl_values)] = 301
    /\ DictGet(analysis_data.mistakes_by_phase, "Endgame - Blunder", 0) = 1
    /\ DictGet(analysis_data.phase_cpl_sum, "Endgame", NoStats) = [cpl |-> 301, count |-> 1]

\* C2: once save_game_analysis has been called for a game with a working
\* store, the store holds exactly one row under the game's identifier and
\* is_game_analyzed answers true for the game; and no game saved so in an
\* earlier run is analyzed again.
C2_SavedOnceThenSkipped ==
    /\ \A g \in MainGames :
          GameId(g) \in saved_ok \cup saved_prev =>
             /\ Cardinality({r \in store : r.game_url = GameId(g)}) = 1
             /\ is_game_analyzed("open", "idle", store, g, "ok").result
    /\ pc \in {"replay", "save"} => GameId(game) \notin saved_prev

\* C3: a persistence operation that fails lets no exception escape and leaves
\* the transaction rolled back, and an existence check the store answers is
\* not failed by an earlier failure.
C3_FailureStaysInItsOperation ==
    db_log # NoneRec =>
        /\ db_log.failed => (db_log.escaped = None /\ txn # "aborted")
        /\ ( /\ db_log.op = "is_game_analyzed"
             /\ db_log.outcome = "ok" /\ db_log.conn_before = "open" )
           => ~db_log.failed

\* C4: no error of a request escapes fetch_chessdotcom_games; after a failed
\* archive-list request it returns the empty list; and what it returns is
\* the first max_games of the games served, newest first.
C4_FetchNeverRaises ==
    /\ raised # "UnboundLocalError" /\ caught # "UnboundLocalError"
    /\ pc = "fetched" =>
          /\ listing.kind # "ok" => games_pgn_list = << >>
          /\ Len(games_pgn_list) <= max_games
          /\ games_pgn_list = Take(served, max_games)

\* C5: an engine failure is caught by nothing but the top-level handler: the
\* game it struck is not recorded, no later game is analyzed, nothing is
\* aggregated or reported, and the handler logs it; and however the run
\* ends, no engine process is left running and no connection left open.
C5_EngineFailureEndsRunCleanly ==
    /\ raised \in EngineFailures => pc = "except"
    /\ ( last_call # NoneRec /\ last_call.raised # None /\ pc # "except" ) =>
          /\ pc \in {"finally", "done"}
          /\ caught = last_call.raised
          /\ final_summary = NoneRec /\ report = NoneRec
          /\ Len(all_cpl_results) < Len(games_to_analyze)
          /\ game = games_to_analyze[Len(all_cpl_results) + 1]
    /\ pc = "done" => (engine # "running" /\ conn \notin {"open", "broken"})

\* A run ended by an engine failure in the first of two games, with the
\* engine shut down and the connection closed.
C5_Witness ==
    /\ pc = "done" /\ caught \in EngineFailures
    /\ Len(games_to_analyze) = 2 /\ all_cpl_results = << >>
    /\ engine = "quit" /\ conn = "closed"

\* The value C11 states for an evaluation: a centipawn value unchanged,
\* 10000 - N for a mate in N > 0, -(10000 + |N|) for a mate in N < 0.
ClaimedScore(s) ==
    IF s.kind = "cp" THEN s.n
    ELSE IF s.n > 0 THEN 10000 - s.n
    ELSE -(10000 + (IF s.n < 0 THEN -s.n ELSE s.n))

WinningMate(s) == s.kind = "mate" /\ s.n \in 1..MaxMate
LosingMate(s) == s.kind = "mate" /\ -s.n \in 1..MaxMate
PlainInRange(s) == s.kind = "cp" /\ s.n < 10000 - MaxMate /\ -s.n < 10000 - MaxMate

\* C11: of the two evaluations a call of get_centipawn_loss normalizes, a
\* centipawn value is returned unchanged, a mate in N > 0 gives 10000 - N and
\* a mate in N < 0 gives -(10000 + |N|); a winning mate in up to MaxMate
\* ranks above every centipawn value c with |c| < 10000 - MaxMate, a losing
\* mate below it, and of two winning mates the shorter ranks above the longer.
C11_MateBandOrdered ==
    (last_call # NoneRec /\ Len(last_call.scores) = 2) =>
        LET r == last_call.replies
            v == last_call.scores
        IN /\ \A i \in 1..2 :
                 (r[i].kind = "cp" \/ r[i].n # 0) => v[i] = ClaimedScore(r[i])
           /\ \A i, j \in 1..2 :
                 /\ (WinningMate(r[i]) /\ PlainInRange(r[j])) => v[i] > v[j]
                 /\ (LosingMate(r[i]) /\ PlainInRange(r[j])) => v[i] < v[j]
                 /\ (WinningMate(r[i]) /\ WinningMate(r[j]) /\ r[i].n < r[j].n)
                      => v[i] > v[j]

\* The longest winning mate was normalized next to the largest centipawn value
\* below the mate band, and the call returned.
C11_Witness ==
    /\ last_call # NoneRec /\ Len(last_call.scores) = 2
    /\ last_call.replies = <<Mate(MaxMate), Cp(MATE_VALUE - MaxMate - 1)>>
    /\ last_call.scores = <<MATE_VALUE - MaxMate, MATE_VALUE - MaxMate - 1>>
    /\ last_call.returned = <<1>>

NonNegative(values) == \A i \in 1..Len(values) : values[i] >= 0
NonNegativeSums(stats) == \A i \in 1..Len(stats) : stats[i].v.cpl >= 0

\* C12: a call of get_centipawn_loss that returns, returns the greater of 0
\* and the normalized evaluation before the move minus the normalized
\* evaluation after it; every value of a game's CPL list and of the summary's
\* CPL list is >= 0, and so is every phase's CPL sum, per game and summed.
C12_LossNeverNegative ==
    /\ (last_call # NoneRec /\ last_call.returned # << >>) =>
          LET diff == ClaimedScore(last_call.replies[1]) - ClaimedScore(last_call.replies[2])
          IN /\ last_call.returned[1] = (IF diff > 0 THEN diff ELSE 0)
             /\ last_call.returned[1] >= 0
    /\ NonNegative(analysis_data.user_cpl_values)
    /\ NonNegativeSums(analysis_data.phase_cpl_sum)
    /\ \A i \in 1..Len(all_cpl_results) :
          /\ NonNegative(all_cpl_results[i].user_cpl_values)
          /\ NonNegativeSums(all_cpl_results[i].phase_cpl_sum)
    /\ final_summary # NoneRec =>
          /\ NonNegative(final_summary.total_user_cpl_values)
          /\ NonNegativeSums(final_summary.phase_cpl_sum)

\* A move after which the engine's evaluation is above its evaluation before
\* (a mate against turned into a mate for) was recorded with loss 0.
C12_Witness ==
    /\ pc = "replay" /\ last_call # NoneRec
    /\ last_call.replies = <<Mate(-1), Mate(1)>>
    /\ last_call.scores = <<-10001, 9999>>
    /\ last_call.returned = <<0>>
    /\ analysis_data.user_cpl_values # << >>
    /\ analysis_data.user_cpl_values[Len(analysis_data.user_cpl_values)] = 0
    /\ DictGet(analysis_data.phase_cpl_sum, "Opening", NoStats).cpl = 0

\* The tracked player is to move at ply i of game g: White moves at the odd
\* plies, Black at the even ones.
TrackedToMove(g, i) ==
    \/ (i % 2 = 1 /\ g.white = "hunterisbad1")
    \/ (i % 2 = 0 /\ g.black = "hunterisbad1")
TrackedPlies(g, n) == Cardinality({i \in 1..n : TrackedToMove(g, i)})

\* C13: a pass of analyze_game's loop queries the engine exactly when the
\* tracked player is to move before the move is applied; it advances the
\* half-move counter by one and, unless a query fails, applies the move, so
\* the position is always the game's first move_count moves in order;
\* moves_analyzed is the number of plies so far at which the tracked player
\* was to move; and a game in which neither header names the tracked player
\* is replayed without any query and yields the empty result.
C13_TrackedMovesQueried ==
    /\ [](pc = "replay" =>
            /\ board = SubSeq(mainline_moves(game), 1, move_count)
            /\ analysis_data.moves_analyzed = TrackedPlies(game, move_count)
            /\ (game.white # "hunterisbad1" /\ game.black # "hunterisbad1")
                 => (analysis_data = EmptyAnalysis /\ last_call = NoneRec))
    /\ [](\A i \in 1..Len(all_cpl_results) :
            all_cpl_results[i].moves_analyzed
              = TrackedPlies(games_to_analyze[i], games_to_analyze[i].nplies))
    /\ [][ (pc = "replay" /\ move_count' # move_count) =>
              /\ move_count' = move_count + 1
              /\ (last_call' # NoneRec) <=> TrackedToMove(game, move_count')
              /\ pc' = "replay" =>
                    board' = Append(board, mainline_moves(game)[move_count'])
         ]_vars

\* The tracked player is Black: two moves were applied and only the second
\* was put to the engine, on the position after the first.
C13_Witness ==
    /\ pc = "replay" /\ game.black = USERNAME /\ game.white # USERNAME
    /\ move_count = 2 /\ board = <<1, 2>>
    /\ analysis_data.moves_analyzed = 1
    /\ last_call # NoneRec /\ last_call.before = <<1>>

\* The books of a CPL list, a move count, the phases' sums and the label
\* counts agree.
Balanced(values, moves, stats, labels) ==
    LET over == Cardinality({i \in 1..Len(values) : values[i] > 50})
    IN /\ moves = Len(values)
       /\ moves = SumSeq([i \in 1..Len(stats) |-> stats[i].v.count])
       /\ SumSeq([i \in 1..Len(stats) |-> stats[i].v.cpl]) = SumSeq(values)
       /\ SumSeq([i \in 1..Len(labels) |-> labels[i].v]) = over
       /\ over <= moves

BalancedGame(data) ==
    Balanced(data.user_cpl_values, data.moves_analyzed,
             data.phase_cpl_sum, data.mistakes_by_phase)

BalancedSummary(summary) ==
    Balanced(summary.total_user_cpl_values, summary.total_moves_analyzed,
             summary.phase_cpl_sum, summary.mistakes_by_phase)

====
